---- MODULE Spec2Model ----
(***************************************************************************)
(* Model of module_used_by/mubclass.py: the pre-commit hook that keeps the *)
(* "module used by" block comment of AsciiDoc module files in step with    *)
(* the assemblies that include them.                                       *)
(*                                                                         *)
(* Text is modelled character by character: a string is a sequence of      *)
(* one-character strings, a file is a sequence of such lines (as returned  *)
(* by readlines, terminators kept), and the regular expressions of the     *)
(* source are computed with Python's greedy, backtracking semantics.       *)
(***************************************************************************)
EXTENDS Integers, Sequences, FiniteSets, TLC

\* ------------------------------------------------------------------------
\* Bounds of the model
\* ------------------------------------------------------------------------
MaxLines == 3      \* longest module file drawn as reconciler input
MaxUses == 2       \* longest usage list drawn as reconciler input
MaxRuns == 2       \* MUB instances constructed in one process

\* ------------------------------------------------------------------------
\* String literals of the source and of the modelled repository tree
\* ------------------------------------------------------------------------
MUB_COMMENT == <<"/", "/", " ", "M", "o", "d", "u", "l", "e", " ", "i", "n", "c", "l", "u", "d", "e", "d", " ", "i", "n", " ", "t", "h", "e", " ", "f", "o", "l", "l", "o", "w", "i", "n", "g", " ", "a", "s", "s", "e", "m", "b", "l", "i", "e", "s", ":">>
ModuleMarker == <<"/", "/", " ", "M", "o", "d", "u", "l", "e", " ">>
SlashSlash == <<"/", "/">>
ADOC == <<".", "a", "d", "o", "c">>
BulletPrefix == <<"/", "/", " ", "*", " ">>
IncludeKeyword == <<"i", "n", "c", "l", "u", "d", "e", ":", ":">>
IncludePrefix == <<"i", "n", "c", "l", "u", "d", "e", ":", ":", "m", "o", "d", "u", "l", "e", "s", "/">>
ModulesWord == <<"m", "o", "d", "u", "l", "e", "s">>
IgnoreDirFlag == <<"-", "-", "i", "g", "n", "o", "r", "e", "-", "d", "i", "r", "=">>
IgnoreFileFlag == <<"-", "-", "i", "g", "n", "o", "r", "e", "-", "f", "i", "l", "e", "=">>
CommonAttributes == <<"m", "o", "d", "u", "l", "e", "s", "/", "c", "o", "m", "m", "o", "n", "-", "a", "t", "t", "r", "i", "b", "u", "t", "e", "s", ".", "a", "d", "o", "c">>
NL == <<"\n">>

\* Files of the modelled repository tree (paths relative to its root).
AsmA == <<"a", "/", "a", ".", "a", "d", "o", "c">>
AsmB == <<"b", "/", "b", ".", "a", "d", "o", "c">>
AsmT == <<"T", "/", "t", ".", "a", "d", "o", "c">>
NotesTxt == <<"a", "/", "r", ".", "t", "x", "t">>
ModA == <<"m", "o", "d", "u", "l", "e", "s", "/", "a", ".", "a", "d", "o", "c">>
ModB == <<"m", "o", "d", "u", "l", "e", "s", "/", "b", ".", "a", "d", "o", "c">>

\* Lines that the modelled files are made of.
IncludeA == <<"i", "n", "c", "l", "u", "d", "e", ":", ":", "m", "o", "d", "u", "l", "e", "s", "/", "a", ".", "a", "d", "o", "c", "[", "]", "\n">>
IncludeB == <<"i", "n", "c", "l", "u", "d", "e", ":", ":", "m", "o", "d", "u", "l", "e", "s", "/", "b", ".", "a", "d", "o", "c", "[", "]", "\n">>
HeadingLine == <<"/", "/", " ", "M", "o", "d", "u", "l", "e", " ", "i", "n", "c", "l", "u", "d", "e", "d", " ", "i", "n", " ", "t", "h", "e", " ", "f", "o", "l", "l", "o", "w", "i", "n", "g", " ", "a", "s", "s", "e", "m", "b", "l", "i", "e", "s", ":", "\n">>
SeparatorLine == <<"/", "/", "\n">>
BulletA == <<"/", "/", " ", "*", " ", "a", "/", "a", ".", "a", "d", "o", "c", "\n">>
BulletB_Star == <<"/", "/", "*", "b", "/", "b", ".", "a", "d", "o", "c", "\n">>
BulletB_Bare == <<"/", "/", "b", "/", "b", ".", "a", "d", "o", "c", "\n">>
BulletB_Space == <<"/", "/", " ", "b", "/", "b", ".", "a", "d", "o", "c", "\n">>
BlankLine == <<"\n">>
TitleLine == <<"=", " ", "T", "\n">>
TailChar == <<"x">>

\* Command-line options of the hook.
ArgIgnoreDirB == <<"-", "-", "i", "g", "n", "o", "r", "e", "-", "d", "i", "r", "=", "b">>
ArgIgnoreFileB == <<"-", "-", "i", "g", "n", "o", "r", "e", "-", "f", "i", "l", "e", "=", "m", "o", "d", "u", "l", "e", "s", "/", "b", ".", "a", "d", "o", "c">>

\* ------------------------------------------------------------------------
\* Python string primitives
\* ------------------------------------------------------------------------
Whitespace == {" ", "\t", "\n"}

\* ord(c) for the characters that occur in the model.
CodePoint(c) ==
    CASE c = "\t" -> 9 [] c = "\n" -> 10 [] c = " " -> 32 [] c = "*" -> 42
      [] c = "-" -> 45 [] c = "." -> 46 [] c = "/" -> 47 [] c = ":" -> 58
      [] c = "=" -> 61 [] c = "M" -> 77 [] c = "T" -> 84 [] c = "[" -> 91
      [] c = "]" -> 93 [] c = "a" -> 97 [] c = "b" -> 98 [] c = "c" -> 99
      [] c = "d" -> 100 [] c = "e" -> 101 [] c = "f" -> 102 [] c = "g" -> 103
      [] c = "h" -> 104 [] c = "i" -> 105 [] c = "l" -> 108 [] c = "m" -> 109
      [] c = "n" -> 110 [] c = "o" -> 111 [] c = "r" -> 114 [] c = "s" -> 115
      [] c = "t" -> 116 [] c = "u" -> 117 [] c = "w" -> 119 [] c = "x" -> 120

Max(S) == CHOOSE m \in S : \A n \in S : n <= m

\* s[i:] of a sequence, i counted from 0 as in Python.
SliceFrom(s, i) == SubSeq(s, i + 1, Len(s))

\* p occurs in s at position i (counted from 1).
HasAt(s, p, i) == i >= 1 /\ i + Len(p) - 1 <= Len(s) /\ SubSeq(s, i, i + Len(p) - 1) = p

\* s.startswith(p)
StartsWith(s, p) == HasAt(s, p, 1)

\* p in s
Contains(s, p) == \E i \in 1..Len(s) : HasAt(s, p, i)

RECURSIVE lstrip(_)
lstrip(s) == IF s # <<>> /\ Head(s) \in Whitespace THEN lstrip(Tail(s)) ELSE s

RECURSIVE rstrip(_)
rstrip(s) ==
    IF s # <<>> /\ s[Len(s)] \in Whitespace THEN rstrip(SubSeq(s, 1, Len(s) - 1)) ELSE s

\* str.strip()
strip(s) == rstrip(lstrip(s))

\* a < b for Python strings: lexicographic by code point.
RECURSIVE StrLess(_, _)
StrLess(a, b) ==
    IF b = <<>> THEN FALSE
    ELSE IF a = <<>> THEN TRUE
    ELSE IF Head(a) = Head(b) THEN StrLess(Tail(a), Tail(b))
    ELSE CodePoint(Head(a)) < CodePoint(Head(b))

\* sorted(S) for a set S of strings.
RECURSIVE sorted(_)
sorted(S) ==
    IF S = {} THEN <<>>
    ELSE LET least == CHOOSE x \in S : \A y \in S \ {x} : StrLess(x, y)
         IN <<least>> \o sorted(S \ {least})

\* frozenset(list)
frozenset(list) == {list[i] : i \in 1..Len(list)}

\* ''.join(list)
RECURSIVE join(_)
join(list) == IF list = <<>> THEN <<>> ELSE Head(list) \o join(Tail(list))

\* ------------------------------------------------------------------------
\* Python dict with list values, kept as a sequence of <<key, list>> pairs
\* in insertion order
\* ------------------------------------------------------------------------
DictKeys(d) == {d[i][1] : i \in 1..Len(d)}

DictGet(d, k) == d[CHOOSE i \in 1..Len(d) : d[i][1] = k][2]

\* d.setdefault(k, []).append(v), as lines 94-97 do it
DictAppend(d, k, v) ==
    IF k \in DictKeys(d)
    THEN [i \in 1..Len(d) |-> IF d[i][1] = k THEN <<k, Append(d[i][2], v)>> ELSE d[i]]
    ELSE Append(d, <<k, <<v>>>>)

\* ------------------------------------------------------------------------
\* Regular expressions
\* ------------------------------------------------------------------------
\* Start positions of ".adoc" that the greedy `.+\.adoc` can end with when
\* `.+` starts at position j: at least one character, none of them a newline.
AdocStarts(s, j) ==
    {q \in (j + 1)..(Len(s) - 4) : HasAt(s, ADOC, q) /\ \A k \in j..(q - 1) : s[k] # "\n"}

\* Text matched by `.+\.adoc` starting at j (greedy: the last ".adoc"), or
\* <<>> when it does not match there.
DotPlusAdoc(s, j) ==
    IF AdocStarts(s, j) = {} THEN <<>> ELSE SubSeq(s, j, Max(AdocStarts(s, j)) + 4)

\* Length of the run of whitespace that starts at position i.
RECURSIVE WsRun(_, _)
WsRun(s, i) == IF i <= Len(s) /\ s[i] \in Whitespace THEN 1 + WsRun(s, i + 1) ELSE 0

\* `\*?(.+\.adoc)` when `//\s*` has consumed w whitespace characters: the
\* asterisk is taken first and given back when the rest then fails.
StarThenPath(s, w) ==
    LET i == 3 + w
    IN IF i <= Len(s) /\ s[i] = "*" /\ DotPlusAdoc(s, i + 1) # <<>>
       THEN DotPlusAdoc(s, i + 1)
       ELSE DotPlusAdoc(s, i)

\* `\s*` is greedy: the longest run first, then shorter ones.
RECURSIVE BacktrackSpaces(_, _)
BacktrackSpaces(s, w) ==
    IF StarThenPath(s, w) # <<>> THEN StarThenPath(s, w)
    ELSE IF w = 0 THEN <<>>
    ELSE BacktrackSpaces(s, w - 1)

\* group(1) of re.match(r"^//\s*\*?(.+\.adoc)", s), <<>> when no match.
comment_path_match(s) ==
    IF StartsWith(s, SlashSlash) THEN BacktrackSpaces(s, WsRun(s, 3)) ELSE <<>>

\* group(1) of include_pattern.match(line), <<>> when no match.
include_pattern(line) ==
    IF StartsWith(line, IncludePrefix) /\ DotPlusAdoc(line, Len(IncludePrefix) + 1) # <<>>
    THEN SubSeq(line, Len(IncludeKeyword) + 1,
                Len(IncludePrefix) + Len(DotPlusAdoc(line, Len(IncludePrefix) + 1)))
    ELSE <<>>

\* ------------------------------------------------------------------------
\* get_used_by_from_comments
\* ------------------------------------------------------------------------
RECURSIVE comments_loop(_, _, _)

\* Variant of the loop that records the matched group without trimming it.
comments_loop_untrimmed(lines, line_no, matches) ==
    IF ~(line_no < Len(lines)) THEN <<line_no, matches>>
    ELSE LET line == strip(lines[line_no + 1])
             match == comment_path_match(line)
             matched == IF match # <<>> THEN Append(matches, match) ELSE matches
         IN IF ~StartsWith(line, SlashSlash) THEN <<line_no, matched>>
            ELSE comments_loop(lines, line_no + 1, matched)

\* The while loop, line_no counted from 0 as in the source.
comments_loop(lines, line_no, matches) ==
    IF ~(line_no < Len(lines)) THEN <<line_no, matches>>
    ELSE LET line == strip(lines[line_no + 1])
             match == comment_path_match(line)
             matched == IF match # <<>> THEN Append(matches, strip(match)) ELSE matches
         IN IF ~StartsWith(line, SlashSlash) THEN <<line_no, matched>>
            ELSE comments_loop(lines, line_no + 1, matched)

get_used_by_from_comments(lines) == comments_loop(lines, 0, <<>>)

\* ------------------------------------------------------------------------
\* MUB.update_used_by_info
\* ------------------------------------------------------------------------
has_intro_comment(lines) == \E i \in 1..Len(lines) : Contains(lines[i], ModuleMarker)

\* Variant that parses the leading comment run without the heading check.
intro_comment_unguarded(lines) == get_used_by_from_comments(lines)

\* comment_end_lineno, from_comments as set by lines 142-149.
intro_comment(lines) ==
    IF has_intro_comment(lines) THEN get_used_by_from_comments(lines) ELSE <<0, <<>>>>

RECURSIVE bullets(_)

\* Variant that renders each bullet with a dash in place of the asterisk.
bullets_dash(names) ==
    IF names = <<>> THEN <<>>
    ELSE <<<<"/", "/", " ", "-", " ">> \o Head(names) \o NL>> \o bullets(Tail(names))

\* The bullet lines of the replacement block, lines 164-165.
bullets(names) ==
    IF names = <<>> THEN <<>>
    ELSE <<BulletPrefix \o Head(names) \o NL>> \o bullets(Tail(names))

\* The replacement block, lines 163-165.
comment_block(search_set) == <<MUB_COMMENT \o NL, SlashSlash \o NL>> \o bullets(sorted(search_set))

\* The padding of lines 168-169.
padding(line) == IF Len(line) > Len(NL) THEN <<NL>> ELSE <<>>

\* The outcome of one call: kind is "None" (no update), "lines" (value is
\* the new content) or "IndexError" (lines[comment_end_lineno] is out of
\* range); the locals of the call are kept with it.
update_used_by_info(usage, relative_filename, lines) ==
    LET comment_end_lineno == intro_comment(lines)[1]
        from_comments == intro_comment(lines)[2]
        locals == [comment_end_lineno |-> comment_end_lineno, from_comments |-> from_comments]
    IN IF relative_filename \notin DictKeys(usage)
       THEN [kind |-> "None", value |-> <<>>] @@ locals
       ELSE LET search_set == frozenset(DictGet(usage, relative_filename))
                comments_set == frozenset(from_comments)
                diff == search_set \ comments_set
            IN IF Cardinality(diff) = 0
               THEN [kind |-> "None", value |-> <<>>] @@ locals
               ELSE IF ~(comment_end_lineno < Len(lines))
               THEN [kind |-> "IndexError", value |-> <<>>] @@ locals
               ELSE [kind |-> "lines",
                     value |-> comment_block(search_set)
                                 \o padding(lines[comment_end_lineno + 1])
                                 \o SliceFrom(lines, comment_end_lineno)] @@ locals

\* ------------------------------------------------------------------------
\* Paths and files
\* ------------------------------------------------------------------------
\* Repo.working_dir: the root of the modelled working tree; the hook runs
\* with it as current directory, so a relative file name resolves under it.
RepoRoot == <<"/", "r">>

\* Path.joinpath / Path.resolve of a name relative to the root.
resolve(filename) == RepoRoot \o <<"/">> \o filename

\* str(path.relative_to(base))
relative_to(path, base) == SliceFrom(path, Len(base) + 1)

\* Position of the first and of the last "/" of a relative path, 0 if none.
FirstSlash(path) ==
    IF \E i \in 1..Len(path) : path[i] = "/"
    THEN CHOOSE i \in 1..Len(path) : path[i] = "/" /\ \A k \in 1..(i - 1) : path[k] # "/"
    ELSE 0
LastSlash(path) ==
    IF \E i \in 1..Len(path) : path[i] = "/"
    THEN Max({i \in 1..Len(path) : path[i] = "/"})
    ELSE 0

\* Name of the top-level directory that holds the file.
TopDir(path) == SubSeq(path, 1, FirstSlash(path) - 1)

\* str(Path(filename).parent)
parent(path) == IF LastSlash(path) = 0 THEN <<".">> ELSE SubSeq(path, 1, LastSlash(path) - 1)

\* p.match("[a-z]*"): the name starts with a lowercase ASCII letter.
match_lowercase(name) == name # <<>> /\ CodePoint(name[1]) \in 97..122

\* name matches "*.adoc" (rglob)
is_adoc(path) == Len(path) >= Len(ADOC) /\ HasAt(path, ADOC, Len(path) - Len(ADOC) + 1)

\* file.readlines(): the content cut after every newline, terminators kept.
RECURSIVE readlines(_)
readlines(content) ==
    IF content = <<>> THEN <<>>
    ELSE IF \E i \in 1..Len(content) : content[i] = "\n"
    THEN LET n == CHOOSE i \in 1..Len(content) :
                     content[i] = "\n" /\ \A k \in 1..(i - 1) : content[k] # "\n"
         IN <<SubSeq(content, 1, n)>> \o readlines(SliceFrom(content, n))
    ELSE <<content>>

\* All orders in which a set can be listed (iterdir, rglob, list(set(...))).
Orders(S) == {s \in [1..Cardinality(S) -> S] : \A i, j \in 1..Cardinality(S) : i # j => s[i] # s[j]}

\* list membership
InList(x, list) == \E i \in 1..Len(list) : list[i] = x

\* ------------------------------------------------------------------------
\* process_args
\* ------------------------------------------------------------------------
\* group(1) of re.match("<flag>(.+)", arg), <<>> when no match: the rest of
\* the argument up to a newline, at least one character.
RECURSIVE UntilNewline(_)
UntilNewline(s) ==
    IF s = <<>> \/ Head(s) = "\n" THEN <<>> ELSE <<Head(s)>> \o UntilNewline(Tail(s))

flag_match(flag, arg) ==
    IF StartsWith(arg, flag) THEN UntilNewline(SliceFrom(arg, Len(flag))) ELSE <<>>

RECURSIVE process_args_loop(_, _)
process_args_loop(args, res) ==
    IF args = <<>> THEN res
    ELSE LET arg == Head(args)
             dir_match == flag_match(IgnoreDirFlag, arg)
             file_match == flag_match(IgnoreFileFlag, arg)
         IN IF dir_match # <<>>
            THEN process_args_loop(Tail(args),
                     [res EXCEPT !.ignore_dirs = Append(@, strip(dir_match))])
            ELSE IF file_match # <<>>
            THEN process_args_loop(Tail(args),
                     [res EXCEPT !.ignore_files = Append(@, strip(file_match))])
            ELSE process_args_loop(Tail(args), [res EXCEPT !.files = Append(@, arg)])

process_args(args) ==
    process_args_loop(args, [files |-> <<>>, ignore_dirs |-> <<>>, ignore_files |-> <<>>])

\* ------------------------------------------------------------------------
\* MUB.get_includes_from_file
\* ------------------------------------------------------------------------
RECURSIVE get_includes_from_file(_, _)
get_includes_from_file(ignored, ls) ==
    IF ls = <<>> THEN <<>>
    ELSE LET match == include_pattern(Head(ls))
         IN (IF match = <<>> \/ InList(match, ignored) THEN <<>> ELSE <<match>>)
               \o get_includes_from_file(ignored, Tail(ls))

\* ------------------------------------------------------------------------
\* MUB.get_used_by_from_search
\* ------------------------------------------------------------------------
\* The inner loop over the lines of one assembly file.
RECURSIVE search_lines(_, _, _)
search_lines(usage, name, ls) ==
    IF ls = <<>> THEN usage
    ELSE LET match == include_pattern(Head(ls))
         IN search_lines(IF match = <<>> THEN usage ELSE DictAppend(usage, match, name),
                         name, Tail(ls))

\* The outer loop over self.assemblies; tree gives the content of each file.
RECURSIVE search_files(_, _, _)
search_files(usage, files, tree) ==
    IF files = <<>> THEN usage
    ELSE search_files(
             search_lines(usage, relative_to(Head(files), RepoRoot),
                          readlines(tree[relative_to(Head(files), RepoRoot)])),
             Tail(files), tree)

\* ------------------------------------------------------------------------
\* State
\* ------------------------------------------------------------------------
VARIABLES
    ignore_dirs,     \* MUB.ignore_dirs, class attribute (line 21)
    ignore_files,    \* MUB.ignore_files, class attribute (line 22)
    assemblies,      \* MUB.assemblies, class attribute (line 26)
    used_by,         \* MUB.used_by, class attribute (line 27)
    lines,           \* reconciler call: content of the module file
    parsed,          \* reconciler call: result of get_used_by_from_comments(lines)
    ret,             \* reconciler call: outcome of update_used_by_info
    again,           \* reconciler call: outcome of the call on the returned lines
    stage,           \* reconciler call: which of the calls have been made
    fs,              \* the working tree: content of each file, by relative path
    in_repo,         \* whether the working tree is inside a Git repository
    pc,              \* fix_file: position in the function
    runs,            \* number of MUB instances constructed in this process
    repo,            \* self.repo of the current instance
    otherdirs,       \* self.otherdirs of the current instance
    result,          \* fix_file: result of process_args
    filenames,       \* fix_file: module files to check
    files_modified,  \* fix_file: files_modified
    returned,        \* fix_file: the value returned, <<>> while it has not returned
    exit_status,     \* status the process ended with, <<>> while it runs
    before,          \* the working tree when the current fix_file started
    written          \* files written by the current fix_file

unit_vars == <<lines, parsed, ret, again, stage>>
class_vars == <<ignore_dirs, ignore_files, assemblies, used_by>>
hook_vars == <<fs, in_repo, pc, runs, repo, otherdirs, result, filenames, files_modified,
               returned, exit_status, before, written>>
vars == <<class_vars, unit_vars, hook_vars>>

NotCalled == [kind |-> "not called", value |-> <<>>, comment_end_lineno |-> 0, from_comments |-> <<>>]

\* ------------------------------------------------------------------------
\* Calls of the reconciler and of the parser on one module file
\* (modules/a.adoc), as the tests of tests/test_mubclass.py make them
\* ------------------------------------------------------------------------
\* Lines as readlines returns them: only the last one may lack a newline.
TerminatedLines ==
    {HeadingLine, SeparatorLine, BulletA, BulletB_Star, BulletB_Bare, BulletB_Space,
     BlankLine, TitleLine}

ModuleFiles ==
    UNION {{f \in [1..n -> TerminatedLines \cup {TailChar}] :
               \A i \in 1..(n - 1) : f[i] \in TerminatedLines} : n \in 0..MaxLines}

\* Usage lists as the scan builds them: assembly paths, never empty.
UsageLists == UNION {[1..n -> {AsmA, AsmB}] : n \in 1..MaxUses}

UsageMaps == {<<>>, <<<<ModB, <<AsmA>>>>>>} \cup {<<<<ModA, l>>>> : l \in UsageLists}

UnitInit ==
    /\ lines \in ModuleFiles
    /\ used_by \in UsageMaps
    /\ ignore_dirs = <<ModulesWord>>
    /\ ignore_files = <<CommonAttributes>>
    /\ assemblies = <<>>
    /\ parsed = <<0, <<>>>>
    /\ ret = NotCalled
    /\ again = NotCalled
    /\ stage = "input"
    /\ fs = [f \in {ModA} |-> join(lines)]
    /\ in_repo = TRUE
    /\ pc = "idle"
    /\ runs = 0
    /\ repo = "None"
    /\ otherdirs = <<>>
    /\ result = process_args(<<>>)
    /\ filenames = <<>>
    /\ files_modified = FALSE
    /\ returned = <<>>
    /\ exit_status = <<>>
    /\ before = fs
    /\ written = {}

CallGetUsedByFromComments ==
    /\ stage = "input"
    /\ parsed' = get_used_by_from_comments(lines)
    /\ stage' = "parsed"
    /\ UNCHANGED <<class_vars, hook_vars, lines, ret, again>>

CallUpdateUsedByInfo ==
    /\ stage = "parsed"
    /\ ret' = update_used_by_info(used_by, ModA, lines)
    /\ stage' = "updated"
    /\ UNCHANGED <<class_vars, hook_vars, lines, parsed, again>>

CallUpdateUsedByInfoAgain ==
    /\ stage = "updated"
    /\ ret.kind = "lines"
    /\ again' = update_used_by_info(used_by, ModA, ret.value)
    /\ stage' = "again"
    /\ UNCHANGED <<class_vars, hook_vars, lines, parsed, ret>>

UnitNext == CallGetUsedByFromComments \/ CallUpdateUsedByInfo \/ CallUpdateUsedByInfoAgain

UnitSpec == UnitInit /\ [][UnitNext]_vars

\* ------------------------------------------------------------------------
\* Properties of the reconciler and the parser (checked under UnitSpec)
\* ------------------------------------------------------------------------
Updated == stage \in {"updated", "again"}

\* S: the scanned set for the module; R: the set recorded in its block.
ScannedSet == IF ModA \in DictKeys(used_by) THEN frozenset(DictGet(used_by, ModA)) ELSE {}
RecordedSet == frozenset(intro_comment(lines)[2])

\* C1: update_used_by_info returns None exactly when the module is not a
\* key of the usage map or S is a subset of R, and returns a new line
\* sequence in every other case.
C1_DecisionRule ==
    Updated =>
        /\ ret.kind = "None" <=> (ModA \notin DictKeys(used_by) \/ ScannedSet \subseteq RecordedSet)
        /\ ret.kind # "None" => ret.kind = "lines"

\* The path of a rendered bullet line "// * <path>\n".
BulletPath(line) == SubSeq(line, Len(BulletPrefix) + 1, Len(line) - 1)
IsBullet(line) ==
    /\ StartsWith(line, BulletPrefix)
    /\ Len(line) > Len(BulletPrefix) + 1
    /\ line[Len(line)] = "\n"

\* C2: a returned sequence is the heading, the separator, one bullet per
\* distinct scanned path in lexicographic order, one blank line exactly when
\* the line at the boundary is not blank, then the original lines from the
\* boundary on, unchanged.
C2_ExactOutput ==
    (Updated /\ ret.kind = "lines") =>
        LET b == ret.comment_end_lineno
            n == Cardinality(ScannedSet)
            pad == IF lines[b + 1] # BlankLine THEN 1 ELSE 0
            out == ret.value
        IN /\ Len(out) = 2 + n + pad + (Len(lines) - b)
           /\ out[1] = MUB_COMMENT \o NL
           /\ out[2] = SlashSlash \o NL
           /\ \A i \in 1..n : IsBullet(out[2 + i]) /\ BulletPath(out[2 + i]) \in ScannedSet
           /\ \A i \in 1..(n - 1) : StrLess(BulletPath(out[2 + i]), BulletPath(out[3 + i]))
           /\ pad = 1 => out[3 + n] = BlankLine
           /\ \A k \in 1..(Len(lines) - b) : out[2 + n + pad + k] = lines[b + k]

\* C3: the reconciler applied to the sequence it has just returned, with
\* the same usage map, returns None, and the parser reads back from the
\* rendered block exactly the scanned set.
C3_Idempotent ==
    stage = "again" =>
        /\ again.kind = "None"
        /\ frozenset(get_used_by_from_comments(ret.value)[2]) = ScannedSet

C3_Witness ==
    /\ stage = "again"
    /\ again.kind = "None"
    /\ Cardinality(ScannedSet) = 2
    /\ has_intro_comment(lines)
    /\ RecordedSet = {AsmB}

\* C4 as stated: get_used_by_from_comments returns boundary 0 and no paths
\* for every sequence without the heading marker.
C4_ParserAlone ==
    (stage # "input" /\ ~has_intro_comment(lines)) => parsed = <<0, <<>>>>

\* C4 amended: for a sequence without the heading marker the reconciler
\* works with boundary 0 and no recorded paths, and it splices at line 0;
\* the parser alone returns boundary 0 and no paths when the first line,
\* stripped, does not begin with the comment marker.
C4_NoHeadingNoBlock ==
    /\ (Updated /\ ~has_intro_comment(lines)) =>
          /\ ret.comment_end_lineno = 0
          /\ ret.from_comments = <<>>
          /\ ret.kind = "lines" =>
                SubSeq(ret.value, Len(ret.value) - Len(lines) + 1, Len(ret.value)) = lines
    /\ (stage # "input" /\ lines # <<>> /\ ~StartsWith(strip(lines[1]), SlashSlash)) =>
          parsed = <<0, <<>>>>

C4_Witness ==
    /\ stage = "updated"
    /\ ~has_intro_comment(lines)
    /\ Len(lines) = 2
    /\ lines[1] = BulletA
    /\ parsed = <<1, <<AsmA>>>>
    /\ ret.kind = "lines"
    /\ ret.comment_end_lineno = 0

\* The trimmed texts that a stripped line offers as "comment marker,
\* optional whitespace, optional asterisk, path ending in .adoc".
FormPaths(s) ==
    IF ~StartsWith(s, SlashSlash) THEN {}
    ELSE LET starts == {3 + w : w \in 0..WsRun(s, 3)}
                         \cup {4 + w : w \in {v \in 0..WsRun(s, 3) : HasAt(s, <<"*">>, 3 + v)}}
             ends == {q \in 1..Len(s) : HasAt(s, ADOC, q)}
         IN {strip(SubSeq(s, jq[1], jq[2] + 4)) : jq \in {x \in starts \X ends : x[2] > x[1]}}

\* The spellings of one bullet: with or without a space after the marker,
\* with or without an asterisk.
Spellings(p) ==
    {SlashSlash \o sp \o star \o sp2 \o p \o NL :
        sp \in {<<>>, <<" ">>}, star \in {<<>>, <<"*">>}, sp2 \in {<<>>, <<" ">>}}

IsCommentLine(line) == StartsWith(strip(line), SlashSlash)

\* Indices of the lines before boundary b that have the form, in file order.
RECURSIVE FormLines(_, _, _)
FormLines(ls, i, b) ==
    IF i > b THEN <<>>
    ELSE (IF FormPaths(strip(ls[i])) # {} THEN <<i>> ELSE <<>>) \o FormLines(ls, i + 1, b)

\* C5: the boundary is the index of the first line that, stripped, does not
\* begin with the comment marker (the length if there is none); the list
\* holds, in file order, one trimmed path for each line before the boundary
\* that has the form, and every spelling of a bullet yields the same path.
C5_StructuralParse ==
    stage # "input" =>
        LET b == parsed[1]
            paths == parsed[2]
            idx == FormLines(lines, 1, b)
        IN /\ b \in 0..Len(lines)
           /\ \A i \in 1..b : IsCommentLine(lines[i])
           /\ b < Len(lines) => ~IsCommentLine(lines[b + 1])
           /\ Len(paths) = Len(idx)
           /\ \A k \in 1..Len(idx) :
                 /\ paths[k] \in FormPaths(strip(lines[idx[k]]))
                 /\ \A p \in {AsmA, AsmB} : lines[idx[k]] \in Spellings(p) => paths[k] = p

C5_Witness ==
    /\ stage = "parsed"
    /\ Len(lines) = 3
    /\ lines[1] = BulletB_Star
    /\ lines[2] = BulletB_Space
    /\ lines[3] = TitleLine
    /\ parsed = <<2, <<AsmB, AsmB>>>>

\* C9: the reconciler never ends in an error: it returns None or a complete
\* sequence that begins with the heading and ends with the lines after the
\* boundary, also for an empty file and for a file of comment lines only.
C9_Total ==
    Updated =>
        /\ ret.kind \in {"None", "lines"}
        /\ ret.kind = "lines" =>
              /\ ret.value[1] = MUB_COMMENT \o NL
              /\ SliceFrom(ret.value, Len(ret.value) - (Len(lines) - ret.comment_end_lineno))
                    = SliceFrom(lines, ret.comment_end_lineno)

\* ------------------------------------------------------------------------
\* The hook: fix_file, run in a process that may construct several MUB
\* instances one after the other
\* ------------------------------------------------------------------------
FileNames == {AsmA, AsmB, AsmT, NotesTxt, ModA, ModB}

\* Contents the files of the tree start with.
AsmAContents == {IncludeA, IncludeA \o IncludeB, TitleLine \o IncludeA \o IncludeA}
AsmBContents == {IncludeA, TitleLine \o IncludeB}
ModAContents ==
    {<<>>,
     TitleLine,
     TailChar,
     HeadingLine \o SeparatorLine,
     HeadingLine \o SeparatorLine \o BulletA \o BlankLine \o TitleLine}
ModBContents == {<<>>, TitleLine \o IncludeA}

\* sys.argv[1:] of one invocation.
ArgLists ==
    {<<ModA>>,
     <<AsmA>>,
     <<ArgIgnoreDirB, AsmB, ModB>>,
     <<ArgIgnoreFileB, AsmA, ModB>>}

Init ==
    /\ \E a \in AsmAContents, b \in AsmBContents, ma \in ModAContents, mb \in ModBContents :
          fs = [f \in FileNames |->
                  CASE f = AsmA -> a [] f = AsmB -> b [] f = ModA -> ma [] f = ModB -> mb
                    [] OTHER -> IncludeB]
    /\ in_repo \in BOOLEAN
    /\ ignore_dirs = <<ModulesWord>>
    /\ ignore_files = <<CommonAttributes>>
    /\ assemblies = <<>>
    /\ used_by = <<>>
    /\ pc = "idle"
    /\ runs = 0
    /\ repo = "None"
    /\ otherdirs = <<>>
    /\ result = process_args(<<>>)
    /\ filenames = <<>>
    /\ files_modified = FALSE
    /\ returned = <<>>
    /\ exit_status = <<>>
    /\ before = fs
    /\ written = {}
    /\ lines = <<>>
    /\ parsed = <<0, <<>>>>
    /\ ret = NotCalled
    /\ again = NotCalled
    /\ stage = "unused"

\* Repo(fullpath, search_parent_directories=True): a Repo object, or the
\* exception the constructor raises when no repository holds the path.
Repo(inside) == IF inside THEN "Repo" ELSE "InvalidGitRepositoryError"

\* fix_file, lines 246-254: process_args, MUB(result["files"][0]) and the
\* check of mub.repo.  An exception of the constructor is not caught and
\* ends the process with a traceback, status 1.
FixFileStart(args) ==
    /\ pc \in {"idle", "returned"}
    /\ runs < MaxRuns
    /\ result' = process_args(args)
    /\ runs' = runs + 1
    /\ filenames' = <<>>
    /\ files_modified' = FALSE
    /\ returned' = <<>>
    /\ before' = fs
    /\ written' = {}
    /\ otherdirs' = <<>>
    /\ IF Repo(in_repo) = "InvalidGitRepositoryError"
       THEN /\ repo' = "None"
            /\ pc' = "raised"
            /\ exit_status' = <<1>>
       ELSE /\ repo' = Repo(in_repo)
            /\ IF repo' = "None"
               THEN pc' = "exited" /\ exit_status' = <<2>>
               ELSE pc' = "constructed" /\ exit_status' = exit_status
    /\ UNCHANGED <<class_vars, unit_vars, fs, in_repo>>

\* The loop of lines 259-283 over result["files"].
RECURSIVE existing(_, _)
existing(candidates, tree) ==
    IF candidates = <<>> THEN <<>>
    ELSE (IF Head(candidates) \in DOMAIN tree THEN <<Head(candidates)>> ELSE <<>>)
            \o existing(Tail(candidates), tree)

RECURSIVE collect(_, _, _, _)
collect(files, dirs, ignored, tree) ==
    IF files = <<>> THEN <<>>
    ELSE LET filename == Head(files)
             found ==
                 IF InList(filename, ignored) THEN <<>>
                 ELSE IF Contains(filename, ModulesWord) THEN <<filename>>
                 ELSE IF InList(parent(filename), dirs) THEN <<>>
                 ELSE existing(get_includes_from_file(ignored, readlines(tree[filename])), tree)
         IN found \o collect(Tail(files), dirs, ignored, tree)

\* fix_file, lines 256-283: the exclusion lists are extended in place and
\* the module files to check are collected.
FixFileCollect ==
    /\ pc = "constructed"
    /\ ignore_dirs' = ignore_dirs \o result.ignore_dirs
    /\ ignore_files' = ignore_files \o result.ignore_files
    /\ filenames' = collect(result.files, ignore_dirs', ignore_files', fs)
    /\ pc' = "collected"
    /\ UNCHANGED <<assemblies, used_by, unit_vars, fs, in_repo, runs, repo, otherdirs, result,
                   files_modified, returned, exit_status, before, written>>

\* Names of the top-level directories that find_assembly_dirs keeps.
assembly_dirs(tree, ignored) ==
    {d \in {TopDir(f) : f \in {g \in DOMAIN tree : FirstSlash(g) > 0}} :
        match_lowercase(d) /\ ~InList(d, ignored)}

\* MUB.find_assembly_dirs(), called without a relative path; iterdir lists
\* the directories in an order the file system chooses.
find_assembly_dirs ==
    /\ pc = "collected"
    /\ otherdirs' \in {[i \in DOMAIN o |-> resolve(o[i])] : o \in Orders(assembly_dirs(fs, ignore_dirs))}
    /\ pc' = "dirs"
    /\ UNCHANGED <<class_vars, unit_vars, fs, in_repo, runs, repo, result, filenames,
                   files_modified, returned, exit_status, before, written>>

\* directory.rglob("*.adoc"), in one of the orders the file system may give.
rglob_adoc(directory, tree) ==
    Orders({resolve(f) : f \in {g \in DOMAIN tree :
                                   is_adoc(g) /\ StartsWith(resolve(g), directory \o <<"/">>)}})

RECURSIVE chosen_files(_, _)
chosen_files(dirs, pick) ==
    IF dirs = <<>> THEN <<>> ELSE pick[Head(dirs)] \o chosen_files(Tail(dirs), pick)

\* MUB.find_assembly_files: appends to the list shared by all instances.
find_assembly_files ==
    /\ pc = "dirs"
    /\ \E pick \in [frozenset(otherdirs) -> UNION {rglob_adoc(d, fs) : d \in frozenset(otherdirs)}] :
          /\ \A d \in frozenset(otherdirs) : pick[d] \in rglob_adoc(d, fs)
          /\ assemblies' = assemblies \o chosen_files(otherdirs, pick)
    /\ pc' = "files"
    /\ UNCHANGED <<ignore_dirs, ignore_files, used_by, unit_vars, fs, in_repo, runs, repo,
                   otherdirs, result, filenames, files_modified, returned, exit_status,
                   before, written>>

\* MUB.get_used_by_from_search: adds to the dict shared by all instances.
get_used_by_from_search ==
    /\ pc = "files"
    /\ used_by' = search_files(used_by, assemblies, fs)
    /\ pc' = "searched"
    /\ UNCHANGED <<ignore_dirs, ignore_files, assemblies, unit_vars, fs, in_repo, runs, repo,
                   otherdirs, result, filenames, files_modified, returned, exit_status,
                   before, written>>

\* fix_file, line 289: filenames = list(set(filenames)), in any order.
FixFileDedupe ==
    /\ pc = "searched"
    /\ filenames' \in Orders(frozenset(filenames))
    /\ pc' = "loop"
    /\ UNCHANGED <<class_vars, unit_vars, fs, in_repo, runs, repo, otherdirs, result,
                   files_modified, returned, exit_status, before, written>>

\* fix_file, lines 291-306: one pass of the loop over the module files.
FixFileProcess ==
    /\ pc = "loop"
    /\ filenames # <<>>
    /\ LET filename == Head(filenames)
           adoc_lines == readlines(fs[filename])
           return_lines ==
               update_used_by_info(used_by, relative_to(resolve(filename), RepoRoot),
                                   adoc_lines)
       IN CASE return_lines.kind = "IndexError" ->
                 /\ pc' = "raised"
                 /\ exit_status' = <<1>>
                 /\ UNCHANGED <<fs, files_modified, written, filenames>>
            [] return_lines.kind = "None" ->
                 /\ filenames' = Tail(filenames)
                 /\ UNCHANGED <<fs, files_modified, written, pc, exit_status>>
            [] return_lines.kind = "lines" ->
                 /\ fs' = [fs EXCEPT ![filename] = join(return_lines.value)]
                 /\ files_modified' = TRUE
                 /\ written' = written \cup {filename}
                 /\ filenames' = Tail(filenames)
                 /\ UNCHANGED <<pc, exit_status>>
    /\ UNCHANGED <<class_vars, unit_vars, in_repo, runs, repo, otherdirs, result, returned, before>>

\* fix_file, lines 308-310.
FixFileReturn ==
    /\ pc = "loop"
    /\ filenames = <<>>
    /\ returned' = IF files_modified = FALSE THEN <<0>> ELSE <<1>>
    /\ pc' = "returned"
    /\ UNCHANGED <<class_vars, unit_vars, fs, in_repo, runs, repo, otherdirs, result, filenames,
                   files_modified, exit_status, before, written>>

Next ==
    \/ \E args \in ArgLists : FixFileStart(args)
    \/ FixFileCollect
    \/ find_assembly_dirs
    \/ find_assembly_files
    \/ get_used_by_from_search
    \/ FixFileDedupe
    \/ FixFileProcess
    \/ FixFileReturn

Spec == Init /\ [][Next]_vars

\* ------------------------------------------------------------------------
\* Properties of the scan and of the hook (checked under Spec)
\* ------------------------------------------------------------------------
\* The assembly files of the tree that the current instance discovers.
Discovered ==
    {f \in DOMAIN fs : is_adoc(f) /\ InList(resolve(TopDir(f)), otherdirs)}

\* Number of lines of file f that are the inclusion directive of module m.
Directive(m) == IncludeKeyword \o m \o <<"[", "]", "\n">>
Directives(f, m) == Cardinality({i \in DOMAIN readlines(fs[f]) : readlines(fs[f])[i] = Directive(m)})
Occurrences(list, x) == Cardinality({i \in DOMAIN list : list[i] = x})

\* C6: after the scan has run once on a fresh instance, the usage map has a
\* key for a module exactly when a discovered assembly has a directive for
\* it, each list holds an assembly once per directive line in discovery
\* order, and no file of the modules directory or of an excluded directory
\* is listed.
C6_ScanResult ==
    pc = "searched" =>
        \A m \in {ModA, ModB} :
            /\ m \in DictKeys(used_by) <=> \E f \in Discovered : Directives(f, m) > 0
            /\ m \in DictKeys(used_by) =>
                  LET list == DictGet(used_by, m)
                  IN /\ \A f \in DOMAIN fs :
                           Occurrences(list, f) = IF f \in Discovered THEN Directives(f, m) ELSE 0
                     /\ \A i, j \in DOMAIN list :
                           (i < j /\ list[i] # list[j]) =>
                              \E k, l \in DOMAIN otherdirs :
                                 /\ k < l
                                 /\ otherdirs[k] = resolve(TopDir(list[i]))
                                 /\ otherdirs[l] = resolve(TopDir(list[j]))
                     /\ \A i \in DOMAIN list : ~InList(TopDir(list[i]), ignore_dirs)

\* What the reconciler returns for a file that fix_file checks.
Reconciled(f) == update_used_by_info(used_by, f, readlines(before[f]))
Checked == frozenset(collect(result.files, ignore_dirs, ignore_files, before))

\* C7: when fix_file has ended, a checked file holds the joined lines the
\* reconciler returned for it if it returned any and is unwritten otherwise,
\* and fix_file has returned 1 if a file was written and 0 if none was.
C7_StatusAndWrites ==
    (pc \in {"returned", "raised"} /\ repo # "None") =>
        /\ \A f \in Checked :
              IF Reconciled(f).kind = "lines"
              THEN f \in written /\ fs[f] = join(Reconciled(f).value)
              ELSE f \notin written /\ fs[f] = before[f]
        /\ returned = IF written # {} THEN <<1>> ELSE <<0>>

\* C8: when the first file is in no repository, fix_file ends the process
\* with status 2 before it scans or writes anything.
C8_FatalSetup ==
    (runs > 0 /\ ~in_repo) =>
        /\ exit_status = <<2>>
        /\ assemblies = <<>>
        /\ used_by = <<>>
        /\ fs = before

\* C10: a newly constructed MUB has an empty assembly list, an empty usage
\* map and only the built-in exclusions, whatever earlier instances did.
C10_FreshInstance ==
    pc = "constructed" =>
        /\ assemblies = <<>>
        /\ used_by = <<>>
        /\ ignore_dirs = <<ModulesWord>>
        /\ ignore_files = <<CommonAttributes>>
====
